---- MODULE Spec2Model ----
(***************************************************************************)
(* A model of the skincare backend of src/main.py: the in-memory stores    *)
(* (profiles_db, checkins_db, photos_db), the request handlers that read   *)
(* and write them, and the three scoring functions analyze_skin_progress,  *)
(* generate_ai_recommendations and predict_future_results.                 *)
(*                                                                         *)
(* The scoring functions compute with Python floats (IEEE 754 binary64,    *)
(* round to nearest, ties to even).  Their arithmetic is modelled bit for  *)
(* bit: a float is a sign, a 53-bit significand and a binary exponent, and *)
(* every operation rounds its exact result as the hardware does.           *)
(***************************************************************************)
EXTENDS Integers, Sequences, FiniteSets, TLC

(***************************************************************************)
(* Naturals wider than TLC's integers: little-endian sequences of limbs in *)
(* base 2^15, without leading zero limbs (zero is the empty sequence).     *)
(***************************************************************************)
Base == 2^15
LimbBits == 15

Pow2(k) == 2^k

RECURSIVE NatNorm(_)
NatNorm(a) ==
  IF a = <<>> THEN <<>>
  ELSE IF a[Len(a)] = 0 THEN NatNorm(SubSeq(a, 1, Len(a) - 1))
  ELSE a

RECURSIVE NatFromInt(_)
NatFromInt(n) ==
  IF n = 0 THEN <<>> ELSE <<n % Base>> \o NatFromInt(n \div Base)

RECURSIVE NatToInt(_)
NatToInt(a) ==
  IF a = <<>> THEN 0 ELSE a[1] + Base * NatToInt(Tail(a))

Limb(a, i) == IF i <= Len(a) THEN a[i] ELSE 0

RECURSIVE NatAddFrom(_, _, _, _)
NatAddFrom(a, b, i, carry) ==
  IF i > Len(a) /\ i > Len(b)
  THEN IF carry = 0 THEN <<>> ELSE <<carry>>
  ELSE LET t == Limb(a, i) + Limb(b, i) + carry
       IN  <<t % Base>> \o NatAddFrom(a, b, i + 1, t \div Base)

NatAdd(a, b) == NatAddFrom(a, b, 1, 0)

\* a - b for a >= b
RECURSIVE NatSubFrom(_, _, _, _)
NatSubFrom(a, b, i, borrow) ==
  IF i > Len(a) THEN <<>>
  ELSE LET t == Limb(a, i) - Limb(b, i) - borrow
       IN  IF t < 0 THEN <<t + Base>> \o NatSubFrom(a, b, i + 1, 1)
           ELSE <<t>> \o NatSubFrom(a, b, i + 1, 0)

NatSub(a, b) == NatNorm(NatSubFrom(a, b, 1, 0))

\* -1, 0 or 1 as a < b, a = b or a > b
RECURSIVE NatCmpFrom(_, _, _)
NatCmpFrom(a, b, i) ==
  IF i = 0 THEN 0
  ELSE IF a[i] < b[i] THEN -1
  ELSE IF a[i] > b[i] THEN 1
  ELSE NatCmpFrom(a, b, i - 1)

NatCmp(a, b) ==
  IF Len(a) < Len(b) THEN -1
  ELSE IF Len(a) > Len(b) THEN 1
  ELSE NatCmpFrom(a, b, Len(a))

\* a * k for 0 <= k < Base
RECURSIVE NatMulSmallFrom(_, _, _, _)
NatMulSmallFrom(a, k, i, carry) ==
  IF i > Len(a)
  THEN IF carry = 0 THEN <<>> ELSE <<carry>>
  ELSE LET t == a[i] * k + carry
       IN  <<t % Base>> \o NatMulSmallFrom(a, k, i + 1, t \div Base)

NatMulSmall(a, k) == IF k = 0 THEN <<>> ELSE NatMulSmallFrom(a, k, 1, 0)

\* floor(a / d) and a mod d for 0 < d < Base, from the top limb down
RECURSIVE NatDivSmallFrom(_, _, _, _)
NatDivSmallFrom(a, d, i, rem) ==
  IF i = 0 THEN <<>>
  ELSE LET t == rem * Base + a[i]
       IN  NatDivSmallFrom(a, d, i - 1, t % d) \o <<t \div d>>

NatDivSmall(a, d) == NatNorm(NatDivSmallFrom(a, d, Len(a), 0))

RECURSIVE NatModSmallFrom(_, _, _, _)
NatModSmallFrom(a, d, i, rem) ==
  IF i = 0 THEN rem
  ELSE NatModSmallFrom(a, d, i - 1, (rem * Base + a[i]) % d)

NatModSmall(a, d) == NatModSmallFrom(a, d, Len(a), 0)

Zeros(n) == [i \in 1..n |-> 0]

\* a * 2^k
NatShl(a, k) ==
  IF a = <<>> THEN <<>>
  ELSE Zeros(k \div LimbBits) \o NatMulSmall(a, Pow2(k % LimbBits))

\* floor(a / 2^k)
NatShr(a, k) ==
  IF k \div LimbBits >= Len(a) THEN <<>>
  ELSE NatDivSmall(SubSeq(a, k \div LimbBits + 1, Len(a)), Pow2(k % LimbBits))

RECURSIVE IntBitLen(_)
IntBitLen(n) == IF n = 0 THEN 0 ELSE 1 + IntBitLen(n \div 2)

NatBitLen(a) ==
  IF a = <<>> THEN 0 ELSE (Len(a) - 1) * LimbBits + IntBitLen(a[Len(a)])

NatIsOdd(a) == a # <<>> /\ a[1] % 2 = 1

RECURSIVE NatMulFrom(_, _, _)
NatMulFrom(a, b, i) ==
  IF i > Len(b) THEN <<>>
  ELSE NatAdd(Zeros(i - 1) \o NatMulSmall(a, b[i]), NatMulFrom(a, b, i + 1))

NatMul(a, b) == NatNorm(NatMulFrom(a, b, 1))

\* a / 2^k to the nearest natural, ties to the even one, given q = floor(a / 2^k)
\* (k >= 1): the remainder a - q * 2^k is compared with half of 2^k
NatRoundQuot(a, k, q) ==
  LET c == NatCmp(NatSub(a, NatShl(q, k)), NatShl(<<1>>, k - 1))
  IN  IF c > 0 \/ (c = 0 /\ NatIsOdd(q)) THEN NatAdd(q, <<1>>) ELSE q

NatShrNearestEven(a, k) == NatRoundQuot(a, k, NatShr(a, k))

(***************************************************************************)
(* Python floats.  [sign, man, exp] stands for (-1)^sign * man * 2^exp     *)
(* with man a 53-bit natural (2^52 <= man < 2^53), or man = <<>> for zero. *)
(* The values met here are far from the subnormal and overflow ranges.     *)
(***************************************************************************)
MantBits == 53

FZero(sign) == [sign |-> sign, man |-> <<>>, exp |-> 0]

\* a rounded significand q may have reached 2^53: it is then halved exactly
FRenorm(sign, q, exp) ==
  IF NatBitLen(q) > MantBits
  THEN [sign |-> sign, man |-> NatShr(q, 1), exp |-> exp + 1]
  ELSE [sign |-> sign, man |-> q, exp |-> exp]

\* the float nearest to (-1)^sign * mag * 2^exp
FRound(sign, mag, exp) ==
  IF mag = <<>> THEN FZero(sign)
  ELSE LET n == NatBitLen(mag)
       IN  IF n <= MantBits
           THEN [sign |-> sign, man |-> NatShl(mag, MantBits - n),
                 exp |-> exp - (MantBits - n)]
           ELSE FRenorm(sign, NatShrNearestEven(mag, n - MantBits),
                        exp + (n - MantBits))

IntAbs(n) == IF n < 0 THEN -n ELSE n

\* float(n) for an int n: exact, an int of the model has at most 31 bits
FInt(n) ==
  IF n = 0 THEN FZero(0)
  ELSE [sign |-> IF n < 0 THEN 1 ELSE 0,
        man  |-> NatShl(NatFromInt(IntAbs(n)), MantBits - IntBitLen(IntAbs(n))),
        exp  |-> IntBitLen(IntAbs(n)) - MantBits]

\* the binary places a quotient by b is taken to: a nonzero quotient then
\* has two bits or more beyond the 53 of a significand, whatever its size
DivGuard(b) == MantBits + 2 + IntBitLen(b)

\* a / b for ints a and b > 0 (b < Base), correctly rounded: the quotient is
\* taken to DivGuard(b) binary places and one more bit records a nonzero
\* remainder
FDivFrom(sign, num, b, guard) ==
  FRound(sign,
         NatAdd(NatShl(NatDivSmall(num, b), 1),
                IF NatModSmall(num, b) = 0 THEN <<>> ELSE <<1>>),
         -(guard + 1))

FDivInt(a, b) ==
  FDivFrom(IF a < 0 THEN 1 ELSE 0, NatShl(NatFromInt(IntAbs(a)), DivGuard(b)), b,
           DivGuard(b))

FNeg(x) == [x EXCEPT !.sign = 1 - x.sign]

FIsZero(x) == x.man = <<>>

\* -1, 0, 1 as |x| < |y|, |x| = |y|, |x| > |y|
FCmpMag(x, y) ==
  IF FIsZero(x) THEN (IF FIsZero(y) THEN 0 ELSE -1)
  ELSE IF FIsZero(y) THEN 1
  ELSE IF x.exp < y.exp THEN -1
  ELSE IF x.exp > y.exp THEN 1
  ELSE NatCmp(x.man, y.man)

\* -1, 0, 1 as x < y, x = y, x > y
FCmp(x, y) ==
  IF FIsZero(x) /\ FIsZero(y) THEN 0
  ELSE IF x.sign # y.sign /\ ~FIsZero(x) /\ ~FIsZero(y)
       THEN (IF x.sign = 1 THEN -1 ELSE 1)
  ELSE IF FIsZero(x) THEN (IF y.sign = 1 THEN 1 ELSE -1)
  ELSE IF FIsZero(y) THEN (IF x.sign = 1 THEN -1 ELSE 1)
  ELSE IF x.sign = 0 THEN FCmpMag(x, y) ELSE FCmpMag(y, x)

FGt(x, y) == FCmp(x, y) > 0
FGe(x, y) == FCmp(x, y) >= 0
FLt(x, y) == FCmp(x, y) < 0

IntMin(a, b) == IF a < b THEN a ELSE b
IntMax(a, b) == IF a > b THEN a ELSE b

\* the sum of (-1)^sx * mx * 2^e and (-1)^sy * my * 2^e, rounded; an exact
\* cancellation gives +0.0
FAddAligned(sx, mx, sy, my, e) ==
  LET c == NatCmp(mx, my)
  IN  FRound(IF sx = sy \/ c > 0 THEN sx ELSE IF c < 0 THEN sy ELSE 0,
             IF sx = sy THEN NatAdd(mx, my)
             ELSE IF c >= 0 THEN NatSub(mx, my) ELSE NatSub(my, mx),
             e)

\* x + y
FAdd(x, y) ==
  IF FIsZero(x) /\ FIsZero(y)
  THEN FZero(IF x.sign = 1 /\ y.sign = 1 THEN 1 ELSE 0)
  ELSE IF FIsZero(x) THEN y
  ELSE IF FIsZero(y) THEN x
  ELSE FAddAligned(x.sign, NatShl(x.man, x.exp - IntMin(x.exp, y.exp)),
                   y.sign, NatShl(y.man, y.exp - IntMin(x.exp, y.exp)),
                   IntMin(x.exp, y.exp))

FSub(x, y) == FAdd(x, FNeg(y))

\* x * y
FMul(x, y) ==
  IF FIsZero(x) \/ FIsZero(y)
  THEN FZero((x.sign + y.sign) % 2)
  ELSE FRound((x.sign + y.sign) % 2, NatMul(x.man, y.man), x.exp + y.exp)

Pow10(k) == 10^k

\* the int nearest to x * 10^nd, ties to even, taken on the exact value of x
\* (it stays far below 2^31 here)
RoundScaled(x, nd) ==
  IF FIsZero(x) THEN 0
  ELSE (IF x.sign = 1 THEN -1 ELSE 1)
       * (IF x.exp >= 0
          THEN NatToInt(NatShl(NatMulSmall(x.man, Pow10(nd)), x.exp))
          ELSE NatToInt(NatShrNearestEven(NatMulSmall(x.man, Pow10(nd)), -x.exp)))

\* the float h / 10^nd, with the sign of the rounded value when h = 0
FScaled(h, nd, sign) == IF h = 0 THEN FZero(sign) ELSE FDivInt(h, Pow10(nd))

\* round(x, nd) as the float it returns
PyRound(x, nd) == FScaled(RoundScaled(x, nd), nd, x.sign)

\* int(x): truncation towards zero
FTrunc(x) ==
  IF FIsZero(x) THEN 0
  ELSE (IF x.sign = 1 THEN -1 ELSE 1)
       * (IF x.exp >= 0 THEN NatToInt(NatShl(x.man, x.exp))
          ELSE NatToInt(NatShr(x.man, -x.exp)))

\* a decimal literal of the source, num / 10^nd, read as a float
FDec(num, nd) == FDivInt(num, Pow10(nd))

\* a float the source writes as a literal is kept as that literal; FLit is
\* the binary64 value it denotes
Dec(num, nd) == [num |-> num, nd |-> nd]
FLit(d) == FDec(d.num, d.nd)

(***************************************************************************)
(* State.                                                                  *)
(*   profiles_db, checkins_db, photos_db : the in-memory stores.  A Python *)
(*       dict is kept as the sequence of its [key, value] items in         *)
(*       insertion order.                                                  *)
(*   now       : the clock read by datetime.utcnow(), in ticks.            *)
(*   next_id   : the photo ids handed out so far (uuid4 never repeats).    *)
(*   resp      : the response of the last request handled.                 *)
(*   submitted : the check-ins submitted so far: for each date with a      *)
(*       submission, the values of the last one.  A submission counts from *)
(*       the moment its handler has assigned it to checkins_db, which puts *)
(*       overlapping submissions in an order.  The handlers never read it. *)
(*   hashseed  : the process's string hash seed, which fixes the iteration *)
(*       order of a set of strings for the life of the process.            *)
(*   call, ret : an invocation of one scoring function on its own: its     *)
(*       arguments and the values it has returned so far.                  *)
(*   pending   : for each thread, the request it is in, with the values of *)
(*       the handler's local variables (the clock it read, the dict it     *)
(*       built, the profile it read, its iterator over checkins_db), or    *)
(*       Idle.                                                             *)
(*   sent      : the number of requests the clients have sent.             *)
(***************************************************************************)
VARIABLES profiles_db, checkins_db, photos_db, now, next_id, resp, submitted,
          hashseed, call, ret, pending, sent

vars == <<profiles_db, checkins_db, photos_db, now, next_id, resp, submitted,
          hashseed, call, ret, pending, sent>>

\* ---- Python helpers

\* d.get(key, default) on a record
Get(d, key, default) == IF key \in DOMAIN d THEN d[key] ELSE default

Range(xs) == {xs[i] : i \in DOMAIN xs}

Reverse(xs) == [i \in 1..Len(xs) |-> xs[Len(xs) + 1 - i]]

\* sorted(xs, key=lambda x: x[field], reverse=reverse) is stable: an item goes
\* after the items already placed that do not have to follow it
KeyBefore(a, b, field, reverse) ==
  IF reverse THEN a[field] > b[field] ELSE a[field] < b[field]

RECURSIVE InsertSorted(_, _, _, _)
InsertSorted(acc, x, field, reverse) ==
  IF acc = <<>> THEN <<x>>
  ELSE IF KeyBefore(x, acc[Len(acc)], field, reverse)
       THEN InsertSorted(SubSeq(acc, 1, Len(acc) - 1), x, field, reverse)
            \o <<acc[Len(acc)]>>
       ELSE acc \o <<x>>

RECURSIVE SortedFrom(_, _, _, _, _)
SortedFrom(xs, i, acc, field, reverse) ==
  IF i > Len(xs) THEN acc
  ELSE SortedFrom(xs, i + 1, InsertSorted(acc, xs[i], field, reverse),
                  field, reverse)

Sorted(xs, field, reverse) == SortedFrom(xs, 1, <<>>, field, reverse)

\* xs[-k:] and xs[:-k]
LastK(xs, k) == SubSeq(xs, IntMax(1, Len(xs) - k + 1), Len(xs))
AllButLastK(xs, k) == SubSeq(xs, 1, IntMax(0, Len(xs) - k))

RECURSIVE SumOf(_, _)
SumOf(xs, field) ==
  IF xs = <<>> THEN 0 ELSE xs[1][field] + SumOf(Tail(xs), field)

(***************************************************************************)
(* analyze_skin_progress                                                   *)
(***************************************************************************)

\* the trend bucket of an improvement and its confidence for n check-ins
ClassifyTrend(improvement, n) ==
  IF FGt(improvement, FInt(1))
  THEN [trend |-> "significant_improvement", confidence |-> IntMin(90, 70 + n * 2)]
  ELSE IF FGt(improvement, FDec(3, 1))
  THEN [trend |-> "moderate_improvement", confidence |-> IntMin(80, 60 + n * 2)]
  ELSE IF FGt(improvement, FNeg(FDec(3, 1)))
  THEN [trend |-> "stable", confidence |-> IntMin(75, 50 + n * 2)]
  ELSE [trend |-> "declining", confidence |-> IntMin(85, 65 + n * 2)]

\* sum(c["skin_condition"] for c in cs) / len(cs)
Average(cs) == FDivInt(SumOf(cs, "skin_condition"), Len(cs))

recent_checkins(checkins) == LastK(Sorted(checkins, "created_at", FALSE), 7)

\* the prior window cut 6 check-ins from the end instead of 7
old_checkins_window6(checkins) ==
  IF Len(checkins) > 6
  THEN AllButLastK(Sorted(checkins, "created_at", FALSE), 6)
  ELSE <<>>

old_checkins(checkins) ==
  IF Len(checkins) > 7
  THEN AllButLastK(Sorted(checkins, "created_at", FALSE), 7)
  ELSE <<>>

\* the dict returned once the bucket is known
ProgressReport(bucket, improvement, recent_avg, old_avg, n, photo_count) ==
  [trend             |-> bucket.trend,
   improvement_score |-> PyRound(improvement, 2),
   confidence        |-> bucket.confidence,
   recent_average    |-> PyRound(recent_avg, 1),
   previous_average  |-> PyRound(old_avg, 1),
   total_data_points |-> n,
   photo_count       |-> photo_count]

\* from improvement = recent_avg - old_avg on
ProgressFrom(improvement, recent_avg, old_avg, n, photo_count) ==
  ProgressReport(ClassifyTrend(improvement, n), improvement, recent_avg, old_avg,
                 n, photo_count)

\* from the two averages on
ProgressOf(recent_avg, old_avg, n, photo_count) ==
  ProgressFrom(FSub(recent_avg, old_avg), recent_avg, old_avg, n, photo_count)

analyze_skin_progress(checkins, photos) ==
  IF checkins = <<>>
  THEN [trend |-> "insufficient_data", confidence |-> 0]
  ELSE IF old_checkins(checkins) = <<>>
  THEN [trend |-> "not_enough_data", confidence |-> 30]
  ELSE ProgressOf(Average(recent_checkins(checkins)), Average(old_checkins(checkins)),
                  Len(checkins), Len(photos))

(***************************************************************************)
(* generate_ai_recommendations                                             *)
(***************************************************************************)

\* the product catalog, a dict in insertion order
products_db ==
  << [category |-> "nettoyants", products |-> <<
        [name |-> "CeraVe Gel Moussant", price |-> Dec(1290, 2),
         rating |-> Dec(46, 1), skin_types |-> <<"normale", "mixte", "grasse">>],
        [name |-> "La Roche-Posay Toleriane", price |-> Dec(1550, 2),
         rating |-> Dec(47, 1), skin_types |-> <<"sensible", "sèche">>],
        [name |-> "Neutrogena Ultra Gentle", price |-> Dec(899, 2),
         rating |-> Dec(43, 1), skin_types |-> <<"sensible", "normale">>] >>],
     [category |-> "serums", products |-> <<
        [name |-> "The Ordinary Niacinamide 10%", price |-> Dec(750, 2),
         rating |-> Dec(44, 1), concerns |-> <<"acné", "pores dilatés">>],
        [name |-> "Vichy Mineral 89", price |-> Dec(2490, 2),
         rating |-> Dec(45, 1), concerns |-> <<"sécheresse", "sensibilité">>],
        [name |-> "Paula's Choice BHA 2%", price |-> Dec(3300, 2),
         rating |-> Dec(47, 1), concerns |-> <<"acné", "points noirs">>] >>],
     [category |-> "hydratants", products |-> <<
        [name |-> "Cetaphil Daily Moisturizer", price |-> Dec(1190, 2),
         rating |-> Dec(44, 1), skin_types |-> <<"normale", "sèche">>],
        [name |-> "Effaclar Mat La Roche-Posay", price |-> Dec(1690, 2),
         rating |-> Dec(43, 1), skin_types |-> <<"grasse", "mixte">>],
        [name |-> "Toleriane Ultra Fluide", price |-> Dec(1850, 2),
         rating |-> Dec(46, 1), skin_types |-> <<"sensible">>] >>] >>

\* "skin_types" in product and skin_type in product["skin_types"]
SuitsSkinType(product, skin_type) ==
  "skin_types" \in DOMAIN product /\ skin_type \in Range(product.skin_types)

\* set(concerns) & set(product["concerns"])
matching_concerns(concerns, product) == Range(concerns) \cap Range(product.concerns)

\* the points a product has before its rating counts: an int
BaseScore(product, skin_type, concerns) ==
  (IF SuitsSkinType(product, skin_type) THEN 40 ELSE 0)
  + (IF "concerns" \in DOMAIN product
     THEN Cardinality(matching_concerns(concerns, product)) * 30 ELSE 0)

\* the points for the price
PriceBonus(score, price) ==
  IF FLt(price, FInt(15)) THEN FAdd(score, FInt(10))
  ELSE IF FLt(price, FInt(25)) THEN FAdd(score, FInt(5))
  ELSE score

\* the score with the skin type left out
ProductScore_without_skin_type(product, skin_type, concerns) ==
  PriceBonus(FAdd(FInt(BaseScore(product, "", concerns)),
                  FMul(FLit(product.rating), FInt(5))),
             FLit(product.price))

\* the additive score of one product
ProductScore(product, skin_type, concerns) ==
  PriceBonus(FAdd(FInt(BaseScore(product, skin_type, concerns)),
                  FMul(FLit(product.rating), FInt(5))),
             FLit(product.price))

\* best_product = None
None == [none |-> TRUE]

\* score > best_score
TakesLead(score, best_score) == FGt(score, best_score)

\* one turn of the loop over a category's products: best is [product, score]
Contend(best, product, score) ==
  IF TakesLead(score, best.score) THEN [product |-> product, score |-> score]
  ELSE best

RECURSIVE BestFrom(_, _, _, _, _)
BestFrom(products, i, best, skin_type, concerns) ==
  IF i > Len(products) THEN best
  ELSE BestFrom(products, i + 1,
                Contend(best, products[i],
                        ProductScore(products[i], skin_type, concerns)),
                skin_type, concerns)

BestOf(products, skin_type, concerns) ==
  BestFrom(products, 1, [product |-> None, score |-> FInt(0)], skin_type, concerns)

\* str.title() on the catalog's category names
Title(category) ==
  CASE category = "nettoyants" -> "Nettoyants"
    [] category = "serums"     -> "Serums"
    [] category = "hydratants" -> "Hydratants"

RECURSIVE Dedup(_)
Dedup(xs) ==
  IF xs = <<>> THEN <<>>
  ELSE IF xs[Len(xs)] \in Range(SubSeq(xs, 1, Len(xs) - 1))
       THEN Dedup(SubSeq(xs, 1, Len(xs) - 1))
       ELSE Dedup(SubSeq(xs, 1, Len(xs) - 1)) \o <<xs[Len(xs)]>>

RECURSIVE Concat(_)
Concat(xss) == IF xss = <<>> THEN <<>> ELSE xss[1] \o Concat(Tail(xss))

\* every concern string of a catalog, in the order the catalog writes them
ConcernsOf(catalog) ==
  Dedup(Concat([c \in DOMAIN catalog |->
          Concat([p \in DOMAIN catalog[c].products |->
                    Get(catalog[c].products[p], "concerns", <<>>)])]))

catalog_concerns == ConcernsOf(products_db)

RECURSIVE Filter(_, _)
Filter(xs, S) ==
  IF xs = <<>> THEN <<>>
  ELSE (IF xs[1] \in S THEN <<xs[1]>> ELSE <<>>) \o Filter(Tail(xs), S)

\* iterating over a set of strings: the order follows the strings' hashes,
\* which the process's hash seed fixes.  hashseed holds the sets that come out
\* in the reverse of the catalog's order.
IterSet(S) ==
  IF S \in hashseed THEN Reverse(Filter(catalog_concerns, S))
  ELSE Filter(catalog_concerns, S)

\* the sets of concerns of the products of a catalog
ConcernSetsOf(catalog) ==
  UNION {{Range(Get(p, "concerns", <<>>)) : p \in Range(catalog[c].products)} :
         c \in DOMAIN catalog}

\* the sets of two strings that profiles with these concern lists make the
\* engine iterate over (the order of a smaller set has one outcome)
IterableSets(concern_lists) ==
  {S \in ConcernSetsOf(products_db) :
     Cardinality(S) = 2 /\ \E cs \in concern_lists : S \subseteq Range(cs)}

RECURSIVE Join(_, _)
Join(sep, xs) ==
  IF xs = <<>> THEN ""
  ELSE IF Len(xs) = 1 THEN xs[1]
  ELSE xs[1] \o sep \o Join(sep, Tail(xs))

Reasons(best_product, skin_type, concerns) ==
  (IF SuitsSkinType(best_product, skin_type)
   THEN <<"Adapté aux peaux " \o skin_type \o "s">> ELSE <<>>)
  \o
  (IF "concerns" \in DOMAIN best_product
      /\ matching_concerns(concerns, best_product) # {}
   THEN <<"Traite: " \o Join(", ", IterSet(matching_concerns(concerns, best_product)))>>
   ELSE <<>>)

Urgency(best_score) ==
  IF FGt(best_score, FInt(80)) THEN "high"
  ELSE IF FGt(best_score, FInt(60)) THEN "medium"
  ELSE "low"

\* the entry with round(best_score) in place of int(best_score)
EntryOf_rounded(category, best, skin_type, concerns) ==
  IF best.product # None
  THEN << [category    |-> Title(category),
           product     |-> best.product,
           match_score |-> IntMin(100, FTrunc(PyRound(best.score, 0))),
           reasons     |-> Reasons(best.product, skin_type, concerns),
           urgency     |-> Urgency(best.score)] >>
  ELSE <<>>

\* the entry appended for a category whose loop ended with best, or nothing
\* when no product took the lead
EntryOf(category, best, skin_type, concerns) ==
  IF best.product # None
  THEN << [category    |-> Title(category),
           product     |-> best.product,
           match_score |-> IntMin(100, FTrunc(best.score)),
           reasons     |-> Reasons(best.product, skin_type, concerns),
           urgency     |-> Urgency(best.score)] >>
  ELSE <<>>

CategoryEntry(cat, skin_type, concerns) ==
  EntryOf(cat.category, BestOf(cat.products, skin_type, concerns), skin_type, concerns)

\* the loop over the catalog's categories
CategoryEntries(catalog, skin_type, concerns) ==
  Concat([c \in DOMAIN catalog |-> CategoryEntry(catalog[c], skin_type, concerns)])

WellnessEntry ==
  [category    |-> "Bien-être",
   product     |-> [name |-> "Masque Apaisant Avène", price |-> Dec(1390, 2),
                    rating |-> Dec(45, 1),
                    description |-> "Masque anti-stress pour peaux sensibilisées."],
   match_score |-> 85,
   reasons     |-> <<"Niveau de stress élevé détecté",
                     "Aide à calmer les inflammations">>,
   urgency     |-> "medium"]

\* the stress rule with >= in place of >
StressEntries_from7(stress_level) ==
  IF stress_level >= 7 THEN <<WellnessEntry>> ELSE <<>>

\* the stress rule
StressEntries(stress_level) ==
  IF stress_level > 7 THEN <<WellnessEntry>> ELSE <<>>

\* an ascending sort, reversed: equal scores come out in the opposite order
RankEntries_reversed(recommendations) ==
  Reverse(Sorted(recommendations, "match_score", FALSE))

\* the final ordering of the entries
RankEntries(recommendations) == Sorted(recommendations, "match_score", TRUE)

generate_ai_recommendations(profile, checkins, photos) ==
  RankEntries(CategoryEntries(products_db, Get(profile, "skin_type", "normale"),
                              Get(profile, "main_concerns", <<>>))
              \o StressEntries(Get(profile, "stress_level", 5)))

(***************************************************************************)
(* predict_future_results                                                  *)
(***************************************************************************)

get_prediction_description(score) ==
  IF FGe(score, FInt(8)) THEN "Peau excellente, très peu d'imperfections"
  ELSE IF FGe(score, FInt(7))
  THEN "Peau en bonne santé avec quelques améliorations possibles"
  ELSE IF FGe(score, FInt(6)) THEN "Peau correcte avec des problèmes mineurs"
  ELSE IF FGe(score, FInt(5)) THEN "Peau moyenne nécessitant des soins réguliers"
  ELSE IF FGe(score, FInt(4))
  THEN "Peau problématique nécessitant une attention particulière"
  ELSE "Peau nécessitant des soins intensifs"

\* min(a, b) and max(a, b) keep a unless b is smaller, or larger
FMin(a, b) == IF FLt(b, a) THEN b ELSE a
FMax(a, b) == IF FGt(b, a) THEN b ELSE a

\* min(10, x) alone
Clamp_upper_only(x) == FMin(FInt(10), x)

\* max(1, min(10, x))
Clamp(x) == FMax(FInt(1), FMin(FInt(10), x))

Horizons == <<2, 4, 8, 12>>

WeekKey(weeks) == "week_" \o ToString(weeks)

\* the entry of one horizon, from the clamped score
PredictionEntry(predicted_score, confidence, weeks) ==
  [predicted_score |-> PyRound(predicted_score, 1),
   confidence      |-> IntMax(30, confidence - weeks * 5),
   description     |-> get_prediction_description(predicted_score)]

\* one turn of the loop over the horizons
Prediction(current_avg, trend, confidence, weeks) ==
  PredictionEntry(Clamp(FAdd(current_avg, FMul(FMul(trend, FInt(weeks)), FDec(3, 1)))),
                  confidence, weeks)

TrendDirection(trend) ==
  IF FGt(trend, FInt(0)) THEN "amélioration"
  ELSE IF FGt(trend, FNeg(FDec(3, 1))) THEN "stable"
  ELSE "déclin"

Reliability(n) == IF n > 10 THEN "high" ELSE IF n > 5 THEN "medium" ELSE "low"

\* the dict returned for the analyzer's progress; ints and floats are both
\* kept as floats: 5 and 5.0 are equal in Python and every int met here
\* converts exactly
Forecast(progress, n) ==
  [current_score   |-> Get(progress, "recent_average", FInt(5)),
   trend_direction |-> TrendDirection(Get(progress, "improvement_score", FInt(0))),
   predictions     |->
     [k \in {WeekKey(Horizons[i]) : i \in DOMAIN Horizons} |->
        Prediction(Get(progress, "recent_average", FInt(5)),
                   Get(progress, "improvement_score", FInt(0)),
                   progress.confidence,
                   CHOOSE w \in Range(Horizons) : WeekKey(w) = k)],
   reliability     |-> Reliability(n)]

predict_future_results(profile, checkins) ==
  IF Len(checkins) < 3
  THEN [message |-> "Pas assez de données pour une prédiction fiable"]
  ELSE Forecast(analyze_skin_progress(checkins, <<>>), Len(checkins))

(***************************************************************************)
(* The request handlers.  Every request runs as user_1.                    *)
(***************************************************************************)
user_id == "user_1"

\* ---- bounds of the model
MaxTime == 2
TicksPerDay == 2
MaxPhotos == 1
MaxWorkers == 2
MaxRequests == 3
MaxRun == 7
MaxInvocations == 2

\* ---- the inputs the requests are drawn from
ProfileInputs ==
  [skin_type : {"grasse"}, main_concerns : {<<"acné">>}, stress_level : {8}]
CheckInInputs ==
  [skin_condition : {3, 8}, stress_level : {5}, sleep_hours : {8}]
FileInputs ==
  [content_type : {<<"image", "png">>, <<"text", "plain">>},
   filename : {"a.png"}, size : {10}]

\* datetime.utcnow().date() of a clock reading
DateOf(t) == t \div TicksPerDay

\* ---- dicts as sequences of [key, value] items in insertion order
Keys(d) == {d[i].key : i \in DOMAIN d}
Values(d) == [i \in DOMAIN d |-> d[i].value]
\* d[k]
Lookup(d, k) == d[CHOOSE i \in DOMAIN d : d[i].key = k].value
\* d[k] = v
DictSet(d, k, v) ==
  IF k \in Keys(d)
  THEN [i \in DOMAIN d |-> IF d[i].key = k THEN [key |-> k, value |-> v] ELSE d[i]]
  ELSE d \o <<[key |-> k, value |-> v]>>
\* d.pop(k)
RECURSIVE DictPop(_, _)
DictPop(d, k) ==
  IF d = <<>> THEN <<>>
  ELSE (IF d[1].key = k THEN <<>> ELSE <<d[1]>>) \o DictPop(Tail(d), k)

RECURSIVE OfUser(_, _)
OfUser(xs, u) ==
  IF xs = <<>> THEN <<>>
  ELSE (IF xs[1].user_id = u THEN <<xs[1]>> ELSE <<>>) \o OfUser(Tail(xs), u)

\* [c for c in checkins_db.values() if c["user_id"] == user_id]
user_checkins == OfUser(Values(checkins_db), user_id)
user_photos == OfUser(Values(photos_db), user_id)

NoCall == [fn |-> "none"]
ScoringIdle == UNCHANGED <<hashseed, call, ret>>

\* ---- requests in progress
\* The def handlers run on the threads of a pool, and the async def handlers
\* on the event loop, which awaits nothing in them and so runs each from its
\* start to its return before the next.  Thread 0 is the event loop and
\* 1..MaxWorkers are threads of the pool.  pending[t] is the request thread
\* t is in, with the values of the handler's local variables, or Idle.  A
\* step of a request is one read of the clock, one access to a store, or its
\* return; the steps of the requests in progress interleave in any order.
Idle == [op |-> "none", pc |-> "none"]

\* thread t is in the handler op, at pc
At(t, op, pc) == pending[t].op = op /\ pending[t].pc = pc

\* thread t takes up the next request: the event loop when it is in none, a
\* thread of the pool when it is in none and no thread before it is free
Takes(t) ==
  /\ sent < MaxRequests
  /\ pending[t] = Idle
  /\ \A u \in 1..(t - 1) : pending[u] # Idle
  /\ sent' = sent + 1

\* a step that writes to no store
StoresUntouched ==
  /\ UNCHANGED <<profiles_db, checkins_db, photos_db, now, next_id, submitted>>
  /\ ScoringIdle

\* the first step of a handler, which leaves thread t with the locals th
Begin(t, th) ==
  /\ Takes(t)
  /\ pending' = [pending EXCEPT ![t] = th]
  /\ UNCHANGED resp
  /\ StoresUntouched

\* a later step of thread t that changes its locals only
Step(t, th) ==
  /\ pending' = [pending EXCEPT ![t] = th]
  /\ UNCHANGED <<resp, sent>>
  /\ StoresUntouched

\* the handler returns, or raises, and thread t is free again
Return(t, response) ==
  /\ resp' = response
  /\ pending' = [pending EXCEPT ![t] = Idle]
  /\ UNCHANGED sent
  /\ StoresUntouched

\* the clock never runs backwards
Tick ==
  /\ now < MaxTime
  /\ now' = now + 1
  /\ UNCHANGED <<profiles_db, checkins_db, photos_db, next_id, resp, submitted,
                 pending, sent>>
  /\ ScoringIdle

\* the dict stored for a profile
ProfileRecord(profile, created_at) ==
  [user_id       |-> user_id,
   skin_type     |-> profile.skin_type,
   main_concerns |-> profile.main_concerns,
   stress_level  |-> profile.stress_level,
   created_at    |-> created_at]

\* the dict stored for a check-in
CheckinRecord(checkin, today, created_at) ==
  [user_id        |-> user_id,
   date           |-> today,
   skin_condition |-> checkin.skin_condition,
   stress_level   |-> checkin.stress_level,
   sleep_hours    |-> checkin.sleep_hours,
   created_at     |-> created_at]

\* the response rereads profiles_db[user_id]
ProfileCreated(profiles) ==
  [op |-> "create_skin_profile", status |-> 200, invoked |-> <<>>,
   body |-> [message |-> "Profil de peau créé avec succès !",
             profile |-> Lookup(profiles, user_id)]]

\* the dict is built, with the clock read for created_at; then it is
\* assigned; then the handler returns
create_skin_profile(t) ==
  \/ \E profile \in ProfileInputs :
       Begin(t, [op |-> "create_skin_profile", pc |-> "built",
                 value |-> ProfileRecord(profile, now)])
  \/ /\ At(t, "create_skin_profile", "built")
     /\ profiles_db' = DictSet(profiles_db, user_id, pending[t].value)
     /\ pending' = [pending EXCEPT ![t] = [op |-> "create_skin_profile",
                                           pc |-> "stored"]]
     /\ UNCHANGED <<checkins_db, photos_db, now, next_id, resp, submitted, sent>>
     /\ ScoringIdle
  \/ /\ At(t, "create_skin_profile", "stored")
     /\ Return(t, ProfileCreated(profiles_db))

\* f"{user_id}_{today}"
CheckinId(u, today) == <<u, today>>

\* one more submission for a date, with its values
Submit(log, date, checkin) ==
  [d \in DOMAIN log \cup {date} |-> IF d = date THEN checkin ELSE log[d]]

\* the response rereads checkins_db[checkin_id]
CheckinSaved(checkins, checkin_id) ==
  [op |-> "daily_checkin", status |-> 200, invoked |-> <<>>,
   body |-> [message |-> "Check-in enregistré !",
             checkin |-> Lookup(checkins, checkin_id)]]

\* the clock is read for today; the dict is built, with the clock read
\* again for created_at; then it is assigned under the key of today; then
\* the handler returns
daily_checkin(t) ==
  \/ \E checkin \in CheckInInputs :
       Begin(t, [op |-> "daily_checkin", pc |-> "today", checkin |-> checkin,
                 today |-> DateOf(now)])
  \/ /\ At(t, "daily_checkin", "today")
     /\ Step(t, [op |-> "daily_checkin", pc |-> "built",
                 checkin |-> pending[t].checkin,
                 checkin_id |-> CheckinId(user_id, pending[t].today),
                 value |-> CheckinRecord(pending[t].checkin, pending[t].today,
                                         now)])
  \/ /\ At(t, "daily_checkin", "built")
     /\ checkins_db' = DictSet(checkins_db, pending[t].checkin_id,
                               pending[t].value)
     /\ submitted' = Submit(submitted, pending[t].value.date, pending[t].checkin)
     /\ pending' = [pending EXCEPT ![t] = [op |-> "daily_checkin",
                                           pc |-> "stored",
                                           checkin_id |-> pending[t].checkin_id]]
     /\ UNCHANGED <<profiles_db, photos_db, now, next_id, resp, sent>>
     /\ ScoringIdle
  \/ /\ At(t, "daily_checkin", "stored")
     /\ Return(t, CheckinSaved(checkins_db, pending[t].checkin_id))

\* ---- [c for c in checkins_db.values() if c["user_id"] == user_id], step by
\* step: the iterator notes the size of the dict, and each next() raises
\* RuntimeError when the size is no longer that one

\* the answer to a request whose handler raised an exception that is not an
\* HTTPException: status 500 with a plain text body, not a JSON object
ServerError(op) ==
  [op |-> op, status |-> 500, invoked |-> <<>>,
   body |-> "Internal Server Error"]

\* iter(checkins_db.values()), in a handler that holds profile
StartValues(op, profile) ==
  [op |-> op, pc |-> "iter", profile |-> profile, used |-> Len(checkins_db),
   pos |-> 1, got |-> <<>>]

\* next() after a check-in of a new date was stored
RaiseChangedSize(t, op) ==
  /\ At(t, op, "iter")
  /\ Len(checkins_db) # pending[t].used
  /\ Return(t, ServerError(op))

\* next() yields the value at the iterator's position as it is now, and
\* the comprehension keeps it when it is the user's
YieldValue(t, op) ==
  /\ At(t, op, "iter")
  /\ Len(checkins_db) = pending[t].used
  /\ pending[t].pos <= Len(checkins_db)
  /\ Step(t, [pending[t] EXCEPT
                !.pos = @ + 1,
                !.got = @ \o OfUser(<<checkins_db[pending[t].pos].value>>,
                                    user_id)])

\* next() finds no further value, and the list is complete
Exhausted(t, op) ==
  /\ At(t, op, "iter")
  /\ Len(checkins_db) = pending[t].used
  /\ pending[t].pos > Len(checkins_db)
  /\ Step(t, [pending[t] EXCEPT !.pc = "listed"])

HistoryResponse(checkins) ==
  [op |-> "get_checkin_history", status |-> 200, invoked |-> <<>>,
   body |-> [checkins |-> checkins, count |-> Len(checkins)]]

\* the list is made; then its length is taken and the handler returns
get_checkin_history(t) ==
  \/ Begin(t, StartValues("get_checkin_history", <<>>))
  \/ YieldValue(t, "get_checkin_history")
  \/ RaiseChangedSize(t, "get_checkin_history")
  \/ Exhausted(t, "get_checkin_history")
  \/ /\ At(t, "get_checkin_history", "listed")
     /\ Return(t, HistoryResponse(pending[t].got))

\* the content type is tested; the dict is built, with a fresh id and the
\* clock read for upload_date; then it is assigned; then the handler returns
upload_photo ==
  \/ \E file \in FileInputs :
       IF file.content_type[1] # "image"
       THEN /\ Takes(0)
            /\ resp' = [op |-> "upload_photo", status |-> 400, invoked |-> <<>>,
                        body |-> [detail |-> "Le fichier doit être une image"]]
            /\ UNCHANGED pending
            /\ StoresUntouched
       ELSE /\ Takes(0)
            /\ next_id < MaxPhotos
            /\ next_id' = next_id + 1
            /\ pending' = [pending EXCEPT ![0] =
                 [op |-> "upload_photo", pc |-> "built",
                  value |-> [id |-> next_id + 1, user_id |-> user_id,
                             filename |-> <<next_id + 1, file.filename>>,
                             type |-> "progress", upload_date |-> now,
                             size |-> file.size]]]
            /\ UNCHANGED <<profiles_db, checkins_db, photos_db, now, resp,
                           submitted>>
            /\ ScoringIdle
  \/ /\ At(0, "upload_photo", "built")
     /\ photos_db' = DictSet(photos_db, pending[0].value.id, pending[0].value)
     /\ pending' = [pending EXCEPT ![0].pc = "stored"]
     /\ UNCHANGED <<profiles_db, checkins_db, now, next_id, resp, submitted,
                    sent>>
     /\ ScoringIdle
  \/ /\ At(0, "upload_photo", "stored")
     /\ Return(0, [op |-> "upload_photo", status |-> 200, invoked |-> <<>>,
                   body |-> [message |-> "Photo uploadée avec succès !",
                             photo_id |-> pending[0].value.id,
                             photo |-> pending[0].value]])

\* photos_db is read and written by async def handlers only, so nothing a
\* pool thread does falls between the test, the pop and the return
delete_photo ==
  \E photo_id \in 1..MaxPhotos :
    /\ Takes(0)
    /\ IF photo_id \notin Keys(photos_db)
       THEN /\ resp' = [op |-> "delete_photo", status |-> 404, invoked |-> <<>>,
                        body |-> [detail |-> "Photo non trouvée"]]
            /\ UNCHANGED photos_db
       ELSE /\ photos_db' = DictPop(photos_db, photo_id)
            /\ resp' = [op |-> "delete_photo", status |-> 200, invoked |-> <<>>,
                        body |-> [message |-> "Photo supprimée",
                                  photo |-> Lookup(photos_db, photo_id)]]
    /\ UNCHANGED <<profiles_db, checkins_db, now, next_id, submitted, pending>>
    /\ ScoringIdle

\* profiles_db.get(user_id, {})
stored_profile ==
  IF user_id \in Keys(profiles_db)
  THEN Lookup(profiles_db, user_id)
  ELSE <<>>

\* the dict GET /ai/recommendations returns for a stored profile
RecommendationsBody(recommendations, progress, generated_at) ==
  [recommendations       |-> recommendations,
   skin_analysis         |-> progress,
   total_recommendations |-> Len(recommendations),
   high_priority         |->
     Cardinality({i \in DOMAIN recommendations :
                    Get(recommendations[i], "urgency", "") = "high"}),
   generated_at          |-> generated_at]

\* the response of GET /ai/recommendations; invoked lists the scoring
\* functions the handler called
RecommendationsResponse(profile, checkins, photos) ==
  IF profile = <<>>
  THEN [op |-> "get_ai_recommendations", status |-> 200, invoked |-> <<>>,
        body |-> [message |-> "Créez d'abord votre profil de peau",
                  recommendations |-> <<>>]]
  ELSE [op |-> "get_ai_recommendations", status |-> 200,
        invoked |-> <<"generate_ai_recommendations", "analyze_skin_progress">>,
        body |-> RecommendationsBody(
                   generate_ai_recommendations(profile, checkins, photos),
                   analyze_skin_progress(checkins, photos), now)]

\* the profile is read; the check-ins are listed; then the photos are
\* listed, the profile is tested, the scoring functions are called, the
\* clock is read and the handler returns.  photos_db is written by async def
\* handlers only, so it is as the request found it until the return.
get_ai_recommendations ==
  \/ Begin(0, [op |-> "get_ai_recommendations", pc |-> "profile",
               profile |-> stored_profile])
  \/ /\ At(0, "get_ai_recommendations", "profile")
     /\ Step(0, StartValues("get_ai_recommendations", pending[0].profile))
  \/ YieldValue(0, "get_ai_recommendations")
  \/ RaiseChangedSize(0, "get_ai_recommendations")
  \/ Exhausted(0, "get_ai_recommendations")
  \/ /\ At(0, "get_ai_recommendations", "listed")
     /\ Return(0, RecommendationsResponse(pending[0].profile, pending[0].got,
                                          user_photos))

PredictionsResponse(profile, checkins) ==
  IF profile = <<>>
  THEN [op |-> "get_future_predictions", status |-> 200, invoked |-> <<>>,
        body |-> [message |-> "Créez d'abord votre profil"]]
  ELSE [op |-> "get_future_predictions", status |-> 200,
        invoked |-> <<"predict_future_results">>,
        body |-> [predictions |-> predict_future_results(profile, checkins),
                  data_quality |-> Reliability(Len(checkins)),
                  generated_at |-> now]]

\* the profile is read; the check-ins are listed; then the profile is
\* tested, the scoring function is called, the clock is read and the handler
\* returns
get_future_predictions ==
  \/ Begin(0, [op |-> "get_future_predictions", pc |-> "profile",
               profile |-> stored_profile])
  \/ /\ At(0, "get_future_predictions", "profile")
     /\ Step(0, StartValues("get_future_predictions", pending[0].profile))
  \/ YieldValue(0, "get_future_predictions")
  \/ RaiseChangedSize(0, "get_future_predictions")
  \/ Exhausted(0, "get_future_predictions")
  \/ /\ At(0, "get_future_predictions", "listed")
     /\ Return(0, PredictionsResponse(pending[0].profile, pending[0].got))

NoResp == [op |-> "none", status |-> 0, invoked |-> <<>>]

\* the seeds a process can start with, for profiles with these concern lists
HashSeeds(concern_lists) == SUBSET IterableSets(concern_lists)

\* a freshly started process: empty stores and no request in progress
StoresEmpty ==
  /\ profiles_db = <<>>
  /\ checkins_db = <<>>
  /\ photos_db = <<>>
  /\ now = 0
  /\ next_id = 0
  /\ resp = NoResp
  /\ submitted = <<>>
  /\ pending = [t \in 0..MaxWorkers |-> Idle]
  /\ sent = 0

Init ==
  /\ StoresEmpty
  /\ hashseed \in HashSeeds({p.main_concerns : p \in ProfileInputs})
  /\ call = NoCall
  /\ ret = <<>>

Next ==
  \/ Tick
  \/ \E t \in 1..MaxWorkers : create_skin_profile(t)
  \/ \E t \in 1..MaxWorkers : daily_checkin(t)
  \/ \E t \in 1..MaxWorkers : get_checkin_history(t)
  \/ upload_photo
  \/ delete_photo
  \/ get_ai_recommendations
  \/ get_future_predictions

Spec == Init /\ [][Next]_vars

(***************************************************************************)
(* The scoring functions on their own: one invocation on arguments drawn   *)
(* from a bounded family, with the stores of a freshly started process.    *)
(***************************************************************************)

Repeat(v, k) == [i \in 1..k |-> v]

\* skin_condition values day after day: three runs of equal values
RunValues(scale, a, b, c) ==
  Repeat(scale[1], a) \o Repeat(scale[2], b) \o Repeat(scale[3], c)

\* the values of the three runs: rising or falling
Scales == {<<1, 2, 3>>, <<3, 2, 1>>}

\* the check-in stored on a day with no later submission
CheckinOn(day, skin_condition) ==
  CheckinRecord([skin_condition |-> skin_condition, stress_level |-> 5,
                 sleep_hours |-> 8],
                day, day * TicksPerDay)

\* one check-in a day, in the order of the store
HistoryOf(values) == [i \in DOMAIN values |-> CheckinOn(i, values[i])]

Histories ==
  {HistoryOf(RunValues(scale, a, b, c)) :
     scale \in Scales, a \in 0..MaxRun, b \in 0..MaxRun, c \in 0..MaxRun}

PhotoLists ==
  {<<>>, <<[id |-> 1, user_id |-> user_id, filename |-> <<1, "a.png">>,
            type |-> "progress", upload_date |-> 0, size |-> 10]>>}

\* a history is passed oldest first or newest first
AnalyzeCalls ==
  {[fn |-> "analyze_skin_progress", checkins |-> cs, photos |-> ps] :
     cs \in Histories \cup {Reverse(h) : h \in Histories}, ps \in PhotoLists}

InitAnalyze ==
  /\ StoresEmpty
  /\ hashseed = {}
  /\ call \in AnalyzeCalls
  /\ ret = <<>>

InvokeAnalyze ==
  /\ call.fn = "analyze_skin_progress"
  /\ ret = <<>>
  /\ ret' = <<analyze_skin_progress(call.checkins, call.photos)>>
  /\ UNCHANGED <<profiles_db, checkins_db, photos_db, now, next_id, resp,
                 submitted, hashseed, call, pending, sent>>

SpecAnalyze == InitAnalyze /\ [][InvokeAnalyze]_vars

PredictCalls ==
  {[fn |-> "predict_future_results",
    profile |-> ProfileRecord([skin_type |-> "grasse", main_concerns |-> <<"acné">>,
                               stress_level |-> 8], 0),
    checkins |-> cs] : cs \in Histories}

InitPredict ==
  /\ StoresEmpty
  /\ hashseed = {}
  /\ call \in PredictCalls
  /\ ret = <<>>

InvokePredict ==
  /\ call.fn = "predict_future_results"
  /\ ret = <<>>
  /\ ret' = <<predict_future_results(call.profile, call.checkins)>>
  /\ UNCHANGED <<profiles_db, checkins_db, photos_db, now, next_id, resp,
                 submitted, hashseed, call, pending, sent>>

SpecPredict == InitPredict /\ [][InvokePredict]_vars

SkinTypes == {"normale", "mixte", "grasse", "sensible", "sèche", "autre"}
ConcernLists ==
  {<<>>, <<"acné">>, <<"acné", "pores dilatés">>, <<"points noirs", "acné">>,
   <<"sensibilité", "sécheresse", "rides">>}
StressLevels == {7, 8}

RecommendCalls ==
  {[fn |-> "generate_ai_recommendations",
    profile |-> ProfileRecord([skin_type |-> st, main_concerns |-> cs,
                               stress_level |-> sl], 0),
    checkins |-> <<>>, photos |-> <<>>] :
     st \in SkinTypes, cs \in ConcernLists, sl \in StressLevels}

InitRecommend ==
  /\ StoresEmpty
  /\ hashseed \in HashSeeds(ConcernLists)
  /\ call \in RecommendCalls
  /\ ret = <<>>

\* the function is invoked again on the same arguments
InvokeRecommend ==
  /\ call.fn = "generate_ai_recommendations"
  /\ Len(ret) < MaxInvocations
  /\ ret' = Append(ret, generate_ai_recommendations(call.profile, call.checkins,
                                                    call.photos))
  /\ UNCHANGED <<profiles_db, checkins_db, photos_db, now, next_id, resp,
                 submitted, hashseed, call, pending, sent>>

\* the server is started again between two invocations: the new process
\* draws its own hash seed
NewProcess ==
  /\ ret # <<>>
  /\ Len(ret) < MaxInvocations
  /\ hashseed' \in HashSeeds(ConcernLists) \ {hashseed}
  /\ UNCHANGED <<profiles_db, checkins_db, photos_db, now, next_id, resp,
                 submitted, call, ret, pending, sent>>

NextRecommend ==
  \/ InvokeRecommend
  \/ NewProcess

SpecRecommend == InitRecommend /\ [][NextRecommend]_vars

(***************************************************************************)
(* Properties.                                                             *)
(***************************************************************************)

\* the sum of skin_condition over the check-ins of cs at the indices of I
RECURSIVE SumOver(_, _)
SumOver(cs, I) ==
  IF I = {} THEN 0
  ELSE LET i == CHOOSE i \in I : TRUE
       IN  cs[i].skin_condition + SumOver(cs, I \ {i})

\* the check-ins of cs that fewer than 7 others follow in time
RecentWindow(cs) ==
  {i \in DOMAIN cs :
     Cardinality({j \in DOMAIN cs : cs[j].created_at > cs[i].created_at}) < 7}

\* The bucket of improvement = s / 7 - t / m, for s the sum of the 7 recent
\* values and t the sum of the m earlier ones, with n = 7 + m check-ins, in
\* exact arithmetic: improvement > x / 10 iff 10 * (s * m - 7 * t) > 7 * m * x
ExactBucket(s, t, m) ==
  IF 10 * (s * m - 7 * t) > 70 * m
  THEN [trend |-> "significant_improvement", confidence |-> IntMin(90, 70 + 2 * (7 + m))]
  ELSE IF 10 * (s * m - 7 * t) > 21 * m
  THEN [trend |-> "moderate_improvement", confidence |-> IntMin(80, 60 + 2 * (7 + m))]
  ELSE IF 10 * (s * m - 7 * t) > -21 * m
  THEN [trend |-> "stable", confidence |-> IntMin(75, 50 + 2 * (7 + m))]
  ELSE [trend |-> "declining", confidence |-> IntMin(85, 65 + 2 * (7 + m))]

\* the bucket the averages of a history of 8 or more check-ins fall in
BucketOf(cs) ==
  ExactBucket(SumOver(cs, RecentWindow(cs)),
              SumOver(cs, DOMAIN cs \ RecentWindow(cs)),
              Len(cs) - 7)

\* C1: for every history of n >= 8 check-ins the analyzer returns the trend
\* and the confidence of the bucket that improvement = avg(last 7 by
\* created_at) - avg(earlier ones) falls in: above 1.0 significant_improvement
\* with min(90, 70 + 2n), else above 0.3 moderate_improvement with
\* min(80, 60 + 2n), else above -0.3 stable with min(75, 50 + 2n), otherwise
\* declining with min(85, 65 + 2n); 1.0, 0.3 and -0.3 belong to the lower bucket.
C1_BucketOfImprovement ==
  \A i \in DOMAIN ret :
    (call.fn = "analyze_skin_progress" /\ Len(call.checkins) >= 8)
      => /\ ret[i].trend = BucketOf(call.checkins).trend
         /\ ret[i].confidence = BucketOf(call.checkins).confidence

\* C2: a history with no prior window gets a sentinel result, whatever its
\* values and the photos: no check-in gives insufficient_data with confidence
\* 0, and 1 to 7 check-ins give not_enough_data with confidence 30.
C2_Sentinels ==
  \A i \in DOMAIN ret :
    call.fn = "analyze_skin_progress"
      => /\ Len(call.checkins) = 0
              => ret[i] = [trend |-> "insufficient_data", confidence |-> 0]
         /\ Len(call.checkins) \in 1..7
              => ret[i] = [trend |-> "not_enough_data", confidence |-> 30]

\* 7 check-ins of different values, with a photo, got the sentinel
C2_Witness ==
  /\ call.fn = "analyze_skin_progress"
  /\ Len(call.checkins) = 7
  /\ call.checkins[1].skin_condition # call.checkins[7].skin_condition
  /\ call.photos # <<>>
  /\ ret # <<>>
  /\ ret[1].trend = "not_enough_data"

HorizonKeys == {"week_2", "week_4", "week_8", "week_12"}

\* C3: the predictor returns a message and no predictions for fewer than 3
\* check-ins, and for 3 or more it returns predictions for exactly the
\* horizons of 2, 4, 8 and 12 weeks, each with a predicted_score in [1, 10].
C3_HorizonsInRange ==
  \A i \in DOMAIN ret :
    call.fn = "predict_future_results"
      => IF Len(call.checkins) < 3
         THEN DOMAIN ret[i] = {"message"}
         ELSE /\ "predictions" \in DOMAIN ret[i]
              /\ DOMAIN ret[i].predictions = HorizonKeys
              /\ \A k \in HorizonKeys :
                   /\ FGe(ret[i].predictions[k].predicted_score, FInt(1))
                   /\ FGe(FInt(10), ret[i].predictions[k].predicted_score)

\* a rising history whose 12-week prediction was cut down to 10 while its
\* 2-week prediction stays below
C3_Witness ==
  /\ call.fn = "predict_future_results"
  /\ Len(call.checkins) >= 8
  /\ ret # <<>>
  /\ ret[1].predictions["week_12"].predicted_score = FInt(10)
  /\ FLt(ret[1].predictions["week_2"].predicted_score, FInt(10))

\* ten times the additive score of a product, in exact arithmetic: the
\* rating is in tenths and the price in cents
ExactScore10(product, skin_type, concerns) ==
  (IF skin_type \in Range(Get(product, "skin_types", <<>>)) THEN 400 ELSE 0)
  + 300 * Cardinality(Range(concerns) \cap Range(Get(product, "concerns", <<>>)))
  + 5 * product.rating.num
  + (IF product.price.num < 1500 THEN 100
     ELSE IF product.price.num < 2500 THEN 50 ELSE 0)

\* the first product of the list among those of the highest score
FirstBest(products, skin_type, concerns) ==
  products[CHOOSE i \in DOMAIN products :
             /\ \A j \in DOMAIN products :
                  ExactScore10(products[j], skin_type, concerns)
                    <= ExactScore10(products[i], skin_type, concerns)
             /\ \A j \in 1..(i - 1) :
                  ExactScore10(products[j], skin_type, concerns)
                    < ExactScore10(products[i], skin_type, concerns)]

\* the entries of a result for one category of the catalog
EntriesFor(result, category) ==
  {i \in DOMAIN result : result[i].category = Title(category)}

\* C4: for every profile and every category of the catalog the engine
\* selects the product of the highest additive score (+40 for the skin type,
\* +30 per shared concern, rating x 5, +10 under a price of 15, else +5 under
\* 25), and among several products of that score the first of the catalog.
C4_HighestScoreFirst ==
  \A i \in DOMAIN ret :
    call.fn = "generate_ai_recommendations"
      => \A c \in DOMAIN products_db :
           /\ Cardinality(EntriesFor(ret[i], products_db[c].category)) = 1
           /\ \A e \in EntriesFor(ret[i], products_db[c].category) :
                ret[i][e].product =
                  FirstBest(products_db[c].products, call.profile.skin_type,
                            call.profile.main_concerns)

\* a category was won by a product that is not the first of its list
C4_Witness ==
  /\ call.fn = "generate_ai_recommendations"
  /\ ret # <<>>
  /\ \E c \in DOMAIN products_db, e \in DOMAIN ret[1] :
       /\ ret[1][e].category = Title(products_db[c].category)
       /\ ret[1][e].product # products_db[c].products[1]
       /\ ret[1][e].product \in Range(products_db[c].products)

\* the order in which the engine produces its entries
ProductionOrder == <<"Nettoyants", "Serums", "Hydratants", "Bien-être">>

ProducedAt(entry) ==
  CHOOSE k \in DOMAIN ProductionOrder : ProductionOrder[k] = entry.category

\* C5: the returned list is in descending order of match_score, and entries
\* of equal match_score are in the order they were produced in (the
\* categories in catalog order, then the wellness entry).
C5_SortedStable ==
  \A i \in DOMAIN ret :
    call.fn = "generate_ai_recommendations"
      => \A a, b \in DOMAIN ret[i] :
           a < b => \/ ret[i][a].match_score > ret[i][b].match_score
                    \/ /\ ret[i][a].match_score = ret[i][b].match_score
                       /\ ProducedAt(ret[i][a]) < ProducedAt(ret[i][b])

\* two entries of a result have the same match_score
C5_Witness ==
  /\ call.fn = "generate_ai_recommendations"
  /\ ret # <<>>
  /\ \E a, b \in DOMAIN ret[1] :
       a < b /\ ret[1][a].match_score = ret[1][b].match_score

\* C6: the result holds the wellness entry (match_score 85, urgency medium)
\* exactly when the profile's stress_level is above 7, then once, beside the
\* entries of the three categories.
C6_WellnessIffStressed ==
  \A i \in DOMAIN ret :
    call.fn = "generate_ai_recommendations"
      => /\ Cardinality({e \in DOMAIN ret[i] : ret[i][e].category = "Bien-être"})
              = IF call.profile.stress_level > 7 THEN 1 ELSE 0
         /\ \A e \in DOMAIN ret[i] :
              ret[i][e].category = "Bien-être"
                => ret[i][e].match_score = 85 /\ ret[i][e].urgency = "medium"
         /\ Cardinality({e \in DOMAIN ret[i] : ret[i][e].category # "Bien-être"}) = 3

\* a profile of stress_level 8 got the wellness entry among four entries,
\* below a category entry of a higher match_score
C6_Witness ==
  /\ call.fn = "generate_ai_recommendations"
  /\ call.profile.stress_level = 8
  /\ ret # <<>>
  /\ Len(ret[1]) = 4
  /\ ret[1][1].category # "Bien-être"
  /\ \E e \in DOMAIN ret[1] : ret[1][e] = WellnessEntry

\* the improvement score the predictor reads from the analyzer
ImprovementScore(checkins) ==
  Get(analyze_skin_progress(checkins, <<>>), "improvement_score", FInt(0))

\* C7: the predictor's trend_direction follows the analyzer's thresholds: it
\* is improvement only for an improvement score above 0.3, stable for one
\* above -0.3 and at most 0.3, and decline otherwise.
C7_SameThresholds ==
  \A i \in DOMAIN ret :
    (call.fn = "predict_future_results" /\ "trend_direction" \in DOMAIN ret[i])
      => ret[i].trend_direction =
           IF FGt(ImprovementScore(call.checkins), FDec(3, 1)) THEN "amélioration"
           ELSE IF FGt(ImprovementScore(call.checkins), FNeg(FDec(3, 1))) THEN "stable"
           ELSE "déclin"

C9_EnginesNeedProfile ==
  [][(resp' # resp /\ resp'.op \in {"get_ai_recommendations", "get_future_predictions"})
       => /\ resp'.invoked # <<>> => user_id \in Keys(profiles_db')
          /\ user_id \notin Keys(profiles_db')
               => /\ resp'.invoked = <<>>
                  /\ resp'.status = 200
                  /\ "message" \in DOMAIN resp'.body
                  /\ resp'.op = "get_ai_recommendations"
                       => resp'.body.recommendations = <<>>]_vars

\* C10: the engine is deterministic and idempotent: an invocation returns
\* the entries, in the order, that every earlier invocation on the same
\* profile and history returned, and changes neither its arguments nor the
\* stores.
C10_SameEntriesAgain ==
  [][ret' # ret
       => /\ \A i \in DOMAIN ret : ret'[Len(ret')] = ret[i]
          /\ UNCHANGED <<call, profiles_db, checkins_db, photos_db>>]_vars

\* the entries of a result that come from the catalog
CategoryRows(result) == {e \in DOMAIN result : result[e].category # "Bien-être"}

\* C11: every category entry has match_score = min(100, floor(score)) for
\* the additive score of its product, so a match_score from 0 to 100, and
\* urgency high for a score above 80, medium for one above 60 and at most
\* 80, and low otherwise.
C11_MatchScoreAndUrgency ==
  \A i \in DOMAIN ret :
    call.fn = "generate_ai_recommendations"
      => \A e \in CategoryRows(ret[i]) :
           LET score10 == ExactScore10(ret[i][e].product, call.profile.skin_type,
                                       call.profile.main_concerns)
           IN  /\ ret[i][e].match_score = IntMin(100, score10 \div 10)
               /\ ret[i][e].match_score \in 0..100
               /\ ret[i][e].urgency =
                    IF score10 > 800 THEN "high"
                    ELSE IF score10 > 600 THEN "medium" ELSE "low"

\* one result has a high entry whose score is not a whole number, kept
\* below 100, and a low entry
C11_Witness ==
  /\ call.fn = "generate_ai_recommendations"
  /\ ret # <<>>
  /\ \E a, b \in CategoryRows(ret[1]) :
       /\ ret[1][a].urgency = "high"
       /\ ret[1][a].match_score < 100
       /\ ExactScore10(ret[1][a].product, call.profile.skin_type,
                       call.profile.main_concerns) % 10 # 0
       /\ ret[1][b].urgency = "low"

\* the prediction of one horizon from a baseline and a trend rate
PredictedFrom(baseline, trend_rate, weeks) ==
  PyRound(Clamp(FAdd(baseline, FMul(FMul(trend_rate, FInt(weeks)), FDec(3, 1)))), 1)

\* x is the average sum / k rounded to 1 decimal: a whole number of tenths
\* at most half a tenth away from sum / k
IsAverageToTenths(x, sum, k) ==
  /\ x = FDec(RoundScaled(x, 1), 1)
  /\ 2 * IntAbs(RoundScaled(x, 1) * k - 10 * sum) <= k

\* C12: for every history of 3 or more check-ins the predictor's baseline,
\* reported as current_score, is the average skin_condition of the last
\* min(7, n) check-ins by created_at rounded to 1 decimal, its trend rate is
\* the analyzer's improvement_score, and the prediction of each horizon is
\* clamp(baseline + trend rate x horizon x 0.3, 1, 10).
C12_BaselineFromCheckins ==
  \A i \in DOMAIN ret :
    (call.fn = "predict_future_results" /\ Len(call.checkins) >= 3)
      => /\ IsAverageToTenths(ret[i].current_score,
                              SumOver(call.checkins, RecentWindow(call.checkins)),
                              Cardinality(RecentWindow(call.checkins)))
         /\ "improvement_score" \in DOMAIN analyze_skin_progress(call.checkins, <<>>)
              => \A w \in Range(Horizons) :
                   ret[i].predictions[WeekKey(w)].predicted_score
                     = PredictedFrom(ret[i].current_score,
                                     ImprovementScore(call.checkins), w)

\* C13: for every history and every horizon the description of a prediction
\* is the bucket of the predicted_score of the same entry, the clamped value
\* rounded to 1 decimal: excellent from 8, good from 7, fair from 6, average
\* from 5, concerning from 4, and intensive care below 4.
C13_DescriptionOfReported ==
  \A i \in DOMAIN ret :
    (call.fn = "predict_future_results" /\ "predictions" \in DOMAIN ret[i])
      => \A w \in Range(Horizons) :
           ret[i].predictions[WeekKey(w)].description
             = get_prediction_description(ret[i].predictions[WeekKey(w)].predicted_score)

====
